---- MODULE Spec2Model ----
(***************************************************************************)
(* A model of processor.py: the batch loop over the .csv files of a folder *)
(* and process_file (schema resolution by column count, the per-row        *)
(* metrics, the fault decoder, the summary record, and the filesystem      *)
(* steps that archive the source and write the three outputs).             *)
(*                                                                         *)
(* Text is modelled by TLA+ strings: join is concatenation, split scans    *)
(* the characters.  A CSV field is a record [k, n, d]: k = "num" is the    *)
(* number n/d (d > 0), k = "nan" a missing value, k = "text" a field that  *)
(* is not numeric.                                                         *)
(***************************************************************************)
EXTENDS Integers, Sequences, FiniteSets, TLC

(***************************************************************************)
(* Text helpers (Python str operations used by the program).               *)
(***************************************************************************)

\* The characters of the program's strings in code-point order.
Alphabet == " ,.0123456789ABCDEFGHIJKLMNOPQRSTUVWXYZ_abcdefghijklmnopqrstuvwxyz"

DigitChars == "0123456789"

CharAt(s, i) == SubSeq(s, i, i)

Ord(c) == CHOOSE i \in 1..Len(Alphabet) : CharAt(Alphabet, i) = c

IsDigit(c) == \E i \in 1..Len(DigitChars) : CharAt(DigitChars, i) = c

DigitVal(c) == (CHOOSE i \in 1..Len(DigitChars) : CharAt(DigitChars, i) = c) - 1

\* str(n) of a non-negative integer (the f-string conversions).
RECURSIVE ToStr(_)
ToStr(n) ==
    IF n < 10 THEN CharAt(DigitChars, n + 1)
    ELSE ToStr(n \div 10) \o CharAt(DigitChars, (n % 10) + 1)

\* sep.join(parts)
RECURSIVE Join(_, _)
Join(parts, sep) ==
    IF Len(parts) = 0 THEN ""
    ELSE IF Len(parts) = 1 THEN parts[1]
    ELSE parts[1] \o sep \o Join(Tail(parts), sep)

\* s.split(sep) for a non-empty sep: the pieces between the occurrences of
\* sep found left to right without overlap; "" gives [""].
SepsFrom(s, sep, p) ==
    {i \in p..(Len(s) - Len(sep) + 1) : SubSeq(s, i, i + Len(sep) - 1) = sep}

RECURSIVE SplitFrom(_, _, _)
SplitFrom(s, sep, start) ==
    LET at == SepsFrom(s, sep, start)
    IN  IF at = {} THEN <<SubSeq(s, start, Len(s))>>
        ELSE LET i == CHOOSE x \in at : \A y \in at : x <= y
             IN  <<SubSeq(s, start, i - 1)>> \o SplitFrom(s, sep, i + Len(sep))

Split(s, sep) == SplitFrom(s, sep, 1)

\* s.endswith(suffix)
EndsWith(s, suffix) ==
    /\ Len(s) >= Len(suffix)
    /\ SubSeq(s, Len(s) - Len(suffix) + 1, Len(s)) = suffix

\* a < b for Python strings (lexicographic by code point).
RECURSIVE StrLessFrom(_, _, _)
StrLessFrom(a, b, i) ==
    IF i > Len(b) THEN FALSE
    ELSE IF i > Len(a) THEN TRUE
    ELSE IF CharAt(a, i) = CharAt(b, i) THEN StrLessFrom(a, b, i + 1)
    ELSE Ord(CharAt(a, i)) < Ord(CharAt(b, i))

StrLess(a, b) == StrLessFrom(a, b, 1)

\* sorted(set(...)) of strings
RECURSIVE SortedStrings(_)
SortedStrings(S) ==
    IF S = {} THEN <<>>
    ELSE LET m == CHOOSE x \in S : \A y \in S \ {x} : StrLess(x, y)
         IN  <<m>> \o SortedStrings(S \ {m})

\* Series.str.extract('(\d+)').astype(int): the first run of digits, as int.
RECURSIVE DigitRun(_, _)
DigitRun(s, i) ==
    IF i > Len(s) \/ ~IsDigit(CharAt(s, i)) THEN ""
    ELSE CharAt(s, i) \o DigitRun(s, i + 1)

RECURSIVE FirstDigit(_, _)
FirstDigit(s, i) ==
    IF i > Len(s) THEN 0
    ELSE IF IsDigit(CharAt(s, i)) THEN i
    ELSE FirstDigit(s, i + 1)

RECURSIVE ParseInt(_, _)
ParseInt(s, acc) ==
    IF Len(s) = 0 THEN acc
    ELSE ParseInt(SubSeq(s, 2, Len(s)), acc * 10 + DigitVal(CharAt(s, 1)))

ExtractInt(s) == ParseInt(DigitRun(s, FirstDigit(s, 1)), 0)

\* os.path.splitext(os.path.basename(p))[0] for a name with one extension.
RECURSIVE LastDot(_, _)
LastDot(s, i) ==
    IF i < 1 THEN 0
    ELSE IF CharAt(s, i) = "." THEN i
    ELSE LastDot(s, i - 1)

SplitextRoot(name) ==
    LET d == LastDot(name, Len(name))
    IN  IF d <= 1 THEN name ELSE SubSeq(name, 1, d - 1)

(***************************************************************************)
(* Numbers: records [k |-> "num", n |-> numerator, d |-> denominator].     *)
(***************************************************************************)
Num(n) == [k |-> "num", n |-> n, d |-> 1]
Rat(n, d) == [k |-> "num", n |-> n, d |-> d]
NaN == [k |-> "nan", n |-> 0, d |-> 1]
Text == [k |-> "text", n |-> 0, d |-> 1]

\* Numbers with one denominator are compared and subtracted on the numerators.
NumLess(a, b) == IF a.d = b.d THEN a.n < b.n ELSE a.n * b.d < b.n * a.d
NumSub(a, b) ==
    IF a.d = b.d THEN Rat(a.n - b.n, a.d)
    ELSE Rat(a.n * b.d - b.n * a.d, a.d * b.d)
NumMul(a, b) == Rat(a.n * b.n, a.d * b.d)
NumDivInt(a, c) == Rat(a.n, a.d * c)

RECURSIVE NumSum(_)
NumSum(s) ==
    IF Len(s) = 0 THEN Num(0)
    ELSE LET r == NumSum(Tail(s))
         IN  IF s[1].d = r.d THEN Rat(s[1].n + r.n, r.d)
             ELSE Rat(s[1].n * r.d + r.n * s[1].d, s[1].d * r.d)

\* max / min of a non-empty sequence of numbers, and the position of the
\* first occurrence (idxmax / idxmin).
\* An argmax that keeps the last occurrence of the maximum.
RECURSIVE ArgMaxLast(_, _, _)
ArgMaxLast(s, i, best) ==
    IF i > Len(s) THEN best
    ELSE ArgMaxLast(s, i + 1, IF NumLess(s[i], s[best]) THEN best ELSE i)

RECURSIVE ArgMaxFrom(_, _, _)
ArgMaxFrom(s, i, best) ==
    IF i > Len(s) THEN best
    ELSE ArgMaxFrom(s, i + 1, IF NumLess(s[best], s[i]) THEN i ELSE best)

RECURSIVE ArgMinFrom(_, _, _)
ArgMinFrom(s, i, best) ==
    IF i > Len(s) THEN best
    ELSE ArgMinFrom(s, i + 1, IF NumLess(s[i], s[best]) THEN i ELSE best)

ArgMax(s) == ArgMaxFrom(s, 2, 1)
ArgMin(s) == ArgMinFrom(s, 2, 1)
NumMax(s) == s[ArgMax(s)]
NumMin(s) == s[ArgMin(s)]

(***************************************************************************)
(* Program constants.                                                      *)
(***************************************************************************)
FAULT_FLAGS_V1 ==
    << "batteryMinVoltage", "batteryMaxVoltage", "batteryAverageVoltage",
       "batteryVoltageDiff", "batteryTherm1Temp", "batteryTherm2Temp",
       "batteryTherm3Temp", "batteryCurrent" >>

FAULT_FLAGS_V2 ==
    << "batteryMinVoltage", "batteryMaxVoltage", "batteryAverageVoltage",
       "batteryVoltageDiff", "batteryTherm1Temp", "batteryTherm2Temp",
       "batteryTherm3Temp", "batteryTherm4Temp", "batteryCurrent" >>

NumCells == 24
VoltDivisor == 10000
PowerLimit == 14000
\* The Delta threshold 0.03 as DeltaLimitNum / DeltaLimitDen.
DeltaLimitNum == 3
DeltaLimitDen == 100
V1Narrow == 30
V1Wide == 31

base_columns == <<"Timestamp">> \o [i \in 1..NumCells |-> "Cell_" \o ToStr(i)]
therms_v1 == <<"Therm_1", "Therm_2", "Therm_3">>
therms_v2 == << "Therm_1", "Therm_2", "Therm_3", "Therm_4",
                "MOSFET_Temp", "Bot_Bal_Temp", "Top_Bal_Temp" >>

OutputNames ==
    {"processed_battery_data.csv", "battery_summary.csv", "cell_voltages_plot.html"}

(***************************************************************************)
(* decode_faults                                                           *)
(***************************************************************************)
\* int(x): truncation toward zero of a number; ValueError for NaN and for
\* text that is not a number.
IntConv(x) ==
    IF x.k = "num"
    THEN [ok |-> TRUE,
          v  |-> IF x.n >= 0 THEN x.n \div x.d ELSE -((-x.n) \div x.d)]
    ELSE [ok |-> FALSE, v |-> 0]

RECURSIVE Pow2(_)
Pow2(i) == IF i = 0 THEN 1 ELSE 2 * Pow2(i - 1)

\* A bit test shifted by one place.
BitSetOffByOne(m, i) == ((m \div Pow2(i + 1)) % 2) = 1

\* (m >> i) & 1 on a Python int (arithmetic shift: floor division).
BitSet(m, i) == ((m \div Pow2(i)) % 2) = 1

FlagsOf(version) == IF version = 1 THEN FAULT_FLAGS_V1 ELSE FAULT_FLAGS_V2

\* [flag for i, flag in enumerate(flags) if (fault_value >> i) & 1]
RECURSIVE ActiveFlagsFrom(_, _, _)
ActiveFlagsFrom(flags, m, i) ==
    IF i > Len(flags) THEN <<>>
    ELSE (IF BitSet(m, i - 1) THEN <<flags[i]>> ELSE <<>>)
         \o ActiveFlagsFrom(flags, m, i + 1)

JoinOrClear(names) ==
    LET t == Join(names, ", ") IN IF t = "" THEN "clear" ELSE t

\* The result is [ok, text]: ok = FALSE is the ValueError raised by int().
decode_faults(fault_value, version) ==
    LET c == IntConv(fault_value)
    IN  IF ~c.ok THEN [ok |-> FALSE, text |-> ""]
        ELSE [ok |-> TRUE,
              text |-> JoinOrClear(ActiveFlagsFrom(FlagsOf(version), c.v, 1))]

(***************************************************************************)
(* Schema resolution (process_file, lines 25-38)                           *)
(***************************************************************************)
\* A resolver that takes only the 31-column layout for version 1.
InferVersionWideOnly(col_count) == IF col_count = V1Wide THEN 1 ELSE 2

InferVersion(col_count) ==
    IF col_count = V1Narrow \/ col_count = V1Wide THEN 1 ELSE 2

NamedColumns(v) ==
    base_columns \o (IF v = 1 THEN therms_v1 ELSE therms_v2) \o <<"Current", "Faults">>

\* [f"Extra_{i}" for i in range(len(df.columns) - len(columns))]
ExtraColumns(col_count, named) ==
    IF col_count > Len(named)
    THEN [i \in 1..(col_count - Len(named)) |-> "Extra_" \o ToStr(i - 1)]
    ELSE <<>>

ColumnNames(col_count, v) ==
    NamedColumns(v) \o ExtraColumns(col_count, NamedColumns(v))

\* A column assignment that accepts any number of names.
SetColumnsLenient(names, col_count) == Len(names) >= 0

\* df.columns = names: pandas raises ValueError (length mismatch) unless
\* there is exactly one name per column.
SetColumnsOk(names, col_count) == Len(names) = col_count

ColIndex(cols, name) == CHOOSE i \in 1..Len(cols) : cols[i] = name

(***************************************************************************)
(* Per-row metrics (process_file, lines 41-59)                             *)
(***************************************************************************)
\* df.iloc[:, 1:25] /= 10000.0
ConvertCells(fields) ==
    [i \in 1..Len(fields) |->
        IF i >= 2 /\ i <= NumCells + 1 THEN NumDivInt(fields[i], VoltDivisor)
        ELSE fields[i]]

CellsOf(fields) == [i \in 1..NumCells |-> fields[i + 1]]

\* idxmax / idxmin give the column label; the digits of it are the index.
HighestCell(cols, fields) == ExtractInt(cols[1 + ArgMax(CellsOf(fields))])
LowestCell(cols, fields) == ExtractInt(cols[1 + ArgMin(CellsOf(fields))])

RowDelta(fields) == NumSub(NumMax(CellsOf(fields)), NumMin(CellsOf(fields)))

EmptyDerived ==
    [Total_Voltage |-> Num(0), Delta |-> Num(0), Highest_Cell |-> 0,
     Lowest_Cell |-> 0, Power |-> Num(0), Delta_Highlight |-> "",
     Power_Highlight |-> "", Fault_Text |-> ""]

\* The values are exact rationals; the program's floats round them, which
\* keeps the order of the cell voltages and the sign of Delta.
RowMetrics(cols, raw) ==
    LET f     == ConvertCells(raw)
        total == NumSum(CellsOf(f))
        delta == RowDelta(f)
        power == NumMul(total, f[ColIndex(cols, "Current")])
    IN  [fields |-> f,
         Total_Voltage |-> total,
         Delta |-> delta,
         Highest_Cell |-> HighestCell(cols, f),
         Lowest_Cell |-> LowestCell(cols, f),
         Power |-> power,
         Delta_Highlight |->
            IF NumLess(Rat(DeltaLimitNum, DeltaLimitDen), delta) THEN "HIGH" ELSE "",
         Power_Highlight |->
            IF NumLess(Num(PowerLimit), power) THEN "HIGH" ELSE "",
         Fault_Text |-> ""]

(***************************************************************************)
(* Summary (process_file, lines 65-79)                                     *)
(***************************************************************************)
ThermsOf(v) == IF v = 1 THEN therms_v1 ELSE therms_v2

SeqToSet(s) == {s[i] : i \in 1..Len(s)}

RECURSIVE Flatten(_)
Flatten(ss) == IF Len(ss) = 0 THEN <<>> ELSE ss[1] \o Flatten(Tail(ss))

\* Series.mode().iloc[0]: the most frequent value, the smallest on ties.
Mode(s) ==
    LET cnt(v) == Cardinality({i \in 1..Len(s) : s[i] = v})
        top == {v \in SeqToSet(s) : \A w \in SeqToSet(s) : cnt(w) <= cnt(v)}
    IN  CHOOSE v \in top : \A w \in top : v <= w

\* The flag names of the rows joined in the order met, unsorted.
RECURSIVE Dedup(_)
Dedup(q) ==
    IF Len(q) = 0 THEN <<>>
    ELSE LET r == Dedup(SubSeq(q, 1, Len(q) - 1))
         IN  IF q[Len(q)] \in SeqToSet(r) THEN r ELSE Append(r, q[Len(q)])

PresentFaultsUnsorted(texts) ==
    Join(Dedup(Flatten([i \in 1..Len(texts) |->
            IF texts[i] = "clear" THEN <<>> ELSE Split(texts[i], ", ")])), ", ")

\* ", ".join(sorted(set(fault for faults in df["Fault_Text"]
\*                      if faults != "clear" for fault in faults.split(", "))))
PresentFaults(texts) ==
    LET parts == UNION { SeqToSet(Split(texts[i], ", ")) :
                         i \in {j \in 1..Len(texts) : texts[j] # "clear"} }
    IN  Join(SortedStrings(parts), ", ")

EmptySummary ==
    [temps |-> <<>>, Max_Temperature |-> Num(0), Max_Current |-> Num(0),
     Max_Power |-> Num(0), Max_Delta |-> Num(0), Max_Cell_Voltage |-> Num(0),
     Min_Cell_Voltage |-> Num(0), Mode_Highest_Cell |-> 0,
     Mode_Lowest_Cell |-> 0, Present_Faults |-> ""]

\* DataFrame.max().max() / .min().min(): the extreme of each column over
\* the rows, then the extreme of those.
Summarize(v, cols, tbl) ==
    LET temps == ThermsOf(v)
        col(name) == [i \in 1..Len(tbl) |-> tbl[i].fields[ColIndex(cols, name)]]
        cell(c) == [i \in 1..Len(tbl) |-> tbl[i].fields[c + 1]]
    IN  [temps |-> temps,
         Max_Temperature |-> NumMax([t \in 1..Len(temps) |-> NumMax(col(temps[t]))]),
         Max_Current |-> NumMax(col("Current")),
         Max_Power |-> NumMax([i \in 1..Len(tbl) |-> tbl[i].Power]),
         Max_Delta |-> NumMax([i \in 1..Len(tbl) |-> tbl[i].Delta]),
         Max_Cell_Voltage |-> NumMax([c \in 1..NumCells |-> NumMax(cell(c))]),
         Min_Cell_Voltage |-> NumMin([c \in 1..NumCells |-> NumMin(cell(c))]),
         Mode_Highest_Cell |-> Mode([i \in 1..Len(tbl) |-> tbl[i].Highest_Cell]),
         Mode_Lowest_Cell |-> Mode([i \in 1..Len(tbl) |-> tbl[i].Lowest_Cell]),
         Present_Faults |-> PresentFaults([i \in 1..Len(tbl) |-> tbl[i].Fault_Text])]

(***************************************************************************)
(* State                                                                   *)
(***************************************************************************)
VARIABLES
    files,      \* file name -> the raw rows of the file (sequences of fields)
    listing,    \* os.listdir(folder_path), in the order the OS returns it
    idx,        \* entries of listing the for loop has consumed
    pc,         \* "loop" | "proc" (inside process_file) | "done" | "crashed"
    step,       \* the next block of process_file to run
    cur,        \* file_path of the running process_file call
    fs,         \* file name -> [src, dir, outs]: the folder on disk
    col_count,  \* process_file locals
    version,
    columns,
    table,      \* df
    summary,
    stdout,     \* the lines printed
    error,      \* the uncaught exception that ended the process, or ""
    attempted   \* the files process_file was called for

vars == << files, listing, idx, pc, step, cur, fs, col_count, version, columns,
           table, summary, stdout, error, attempted >>

locals == << col_count, version, columns, table, summary >>

(***************************************************************************)
(* Bounds of the inputs                                                    *)
(***************************************************************************)
MaxCsvFiles == 2      \* .csv files in the folder of the batch runs
MaxCols == 37         \* widest file of the schema runs
MaxMask == 520        \* largest fault mask of the decoder runs
MaxNegMask == 2       \* most negative fault value of the decoder runs
MaxHalf == 3          \* fractional fault values k + 1/2, k < MaxHalf
MaxFaultRows == 2     \* rows per file of the summary runs
MaxSummaryMask == 3   \* fault masks 0..MaxSummaryMask of the summary runs
MaxCellLevel == 2     \* cell readings CellBase + CellStep * (0..MaxCellLevel)
CellBase == 36000
CellStep == 200

(***************************************************************************)
(* Input files                                                             *)
(***************************************************************************)
FlatCells == [i \in 1..NumCells |-> CellBase]

\* The narrowest file process_file takes for a version-2 log.
V2Wide == Len(NamedColumns(2))

\* One raw CSV line of width fields as the logger writes it: Current and
\* Faults are fields 29 and 30 of a version-1 line (of 30 or 31 fields) and
\* fields 33 and 34 of a version-2 line; the thermal channels precede them,
\* anything after them is surplus, and a narrower line is a truncated one.
MkRow(width, cells, therm, current, fault) ==
    LET last == IF width <= V1Wide THEN V1Narrow ELSE V2Wide
    IN  [i \in 1..width |->
            IF i = 1 THEN Num(0)
            ELSE IF i <= NumCells + 1 THEN Num(cells[i - 1])
            ELSE IF i = last - 1 THEN Num(current)
            ELSE IF i = last THEN fault
            ELSE IF i < last THEN Num(therm)
            ELSE Num(0)]

GoodV1 == << MkRow(V1Wide, FlatCells, 25, 10, Num(0)) >>
GoodV2 == << MkRow(V2Wide, FlatCells, 25, 10, Num(1)) >>
NarrowV2 == << MkRow(V2Wide - 1, FlatCells, 25, 10, Num(0)) >>
BadFault == << MkRow(V1Wide, FlatCells, 25, 10, NaN) >>
EmptyFile == << >>

Catalogue == {GoodV1, GoodV2, NarrowV2, BadFault, EmptyFile}

CsvName(i) == "log" \o ToStr(i) \o ".csv"
OtherName == "notes.txt"

RECURSIVE Perms(_)
Perms(S) ==
    IF S = {} THEN {<<>>}
    ELSE UNION { {<<x>> \o p : p \in Perms(S \ {x})} : x \in S }

InitFs(names) ==
    [n \in names |-> [src |-> "orig", dir |-> FALSE, outs |-> {s \in OutputNames : FALSE}]]

\* The state before the for loop starts, for a folder holding the .csv
\* files of content (name -> rows) and one file that is not a .csv.
InitFolder(content) ==
    /\ files = content
    /\ listing \in Perms(DOMAIN content \cup {OtherName})
    /\ idx = 0
    /\ pc = "loop"
    /\ step = "none"
    /\ cur = ""
    /\ fs = InitFs(DOMAIN content \cup {OtherName})
    /\ col_count = 0
    /\ version = 0
    /\ columns = <<>>
    /\ table = <<>>
    /\ summary = EmptySummary
    /\ stdout = <<>>
    /\ error = ""
    /\ attempted = {}

Init ==
    \E content \in [{CsvName(i) : i \in 1..MaxCsvFiles} -> Catalogue] :
        InitFolder(content)

(***************************************************************************)
(* The batch loop (lines 128-130)                                          *)
(***************************************************************************)
\* for file in os.listdir(folder_path): if file.endswith(".csv"): process_file(...)
StartFile ==
    /\ pc = "loop"
    /\ idx < Len(listing)
    /\ EndsWith(listing[idx + 1], ".csv")
    /\ idx' = idx + 1
    /\ pc' = "proc"
    /\ step' = "read"
    /\ cur' = listing[idx + 1]
    /\ attempted' = attempted \cup {listing[idx + 1]}
    /\ UNCHANGED << files, listing, fs, locals, stdout, error >>

SkipFile ==
    /\ pc = "loop"
    /\ idx < Len(listing)
    /\ ~EndsWith(listing[idx + 1], ".csv")
    /\ idx' = idx + 1
    /\ UNCHANGED << files, listing, pc, step, cur, fs, locals, stdout, error, attempted >>

Finish ==
    /\ pc = "loop"
    /\ idx = Len(listing)
    /\ pc' = "done"
    /\ UNCHANGED << files, listing, idx, step, cur, fs, locals, stdout, error, attempted >>

(***************************************************************************)
(* process_file                                                            *)
(***************************************************************************)
\* process_file with the move of the source placed before the computation.
MoveFirstOrder ==
    << "read", "mkdir", "move", "schema", "metrics", "decode", "summary",
       "write_data", "write_summary", "write_plot", "print" >>

\* The blocks of process_file in the order the source runs them.
ProgramOrder ==
    << "read", "schema", "metrics", "decode", "summary", "mkdir", "move",
       "write_data", "write_summary", "write_plot", "print" >>

StepAfter(s) ==
    LET i == CHOOSE j \in 1..Len(ProgramOrder) : ProgramOrder[j] = s
    IN  IF i = Len(ProgramOrder) THEN "return" ELSE ProgramOrder[i + 1]

At(s) == pc = "proc" /\ step = s

\* No try/except anywhere: an exception leaves process_file, the for loop
\* and the process.
Raise(kind) ==
    /\ pc' = "crashed"
    /\ error' = kind
    /\ UNCHANGED << files, listing, idx, step, cur, attempted, stdout >>

Advance == pc' = pc /\ step' = StepAfter(step) /\ error' = error
           /\ UNCHANGED << files, listing, idx, cur, attempted, stdout >>

RawRow(raw) == [fields |-> raw] @@ EmptyDerived

\* line 23: df = pd.read_csv(file_path, header=None).  pandas raises
\* EmptyDataError for a file without a data line, so df has a row when the
\* call returns; an unreadable file raises an OSError.
ReadCsv ==
    /\ At("read")
    /\ \E readable \in BOOLEAN :
        IF ~readable
        THEN Raise("OSError") /\ UNCHANGED << fs, locals >>
        ELSE IF Len(files[cur]) = 0
        THEN Raise("EmptyDataError") /\ UNCHANGED << fs, locals >>
        ELSE /\ table' = [i \in 1..Len(files[cur]) |-> RawRow(files[cur][i])]
             /\ Advance
             /\ UNCHANGED << fs, col_count, version, columns, summary >>

\* lines 25-38
ResolveSchema ==
    /\ At("schema")
    /\ col_count' = Len(table[1].fields)
    /\ version' = InferVersion(col_count')
    /\ LET names == ColumnNames(col_count', version')
       IN  IF SetColumnsOk(names, col_count')
           THEN columns' = names /\ Advance
           ELSE columns' = columns /\ Raise("ValueError")
    /\ UNCHANGED << fs, table, summary >>

\* lines 41-59
Metrics ==
    /\ At("metrics")
    /\ table' = [i \in 1..Len(table) |-> RowMetrics(columns, table[i].fields)]
    /\ Advance
    /\ UNCHANGED << fs, col_count, version, columns, summary >>

\* line 62: df["Fault_Text"] = df["Faults"].apply(lambda x: decode_faults(x, version))
DecodeRow(row, cols, v) == decode_faults(row.fields[ColIndex(cols, "Faults")], v)

Decode ==
    /\ At("decode")
    /\ IF \A i \in 1..Len(table) : DecodeRow(table[i], columns, version).ok
       THEN /\ table' = [i \in 1..Len(table) |->
                            [table[i] EXCEPT !.Fault_Text =
                                DecodeRow(table[i], columns, version).text]]
            /\ Advance
       ELSE table' = table /\ Raise("ValueError")
    /\ UNCHANGED << fs, col_count, version, columns, summary >>

\* lines 65-79
SummaryStep ==
    /\ At("summary")
    /\ summary' = Summarize(version, columns, table)
    /\ Advance
    /\ UNCHANGED << fs, col_count, version, columns, table >>

\* lines 82-84: os.makedirs(output_dir, exist_ok=True)
MakeDirs ==
    /\ At("mkdir")
    /\ \E ok \in BOOLEAN :
        IF ok THEN fs' = [fs EXCEPT ![cur].dir = TRUE] /\ Advance
        ELSE fs' = fs /\ Raise("OSError")
    /\ UNCHANGED locals

\* line 87: shutil.move(file_path, os.path.join(output_dir, basename))
MoveSource ==
    /\ At("move")
    /\ \E ok \in BOOLEAN :
        IF ok THEN fs' = [fs EXCEPT ![cur].src = "moved"] /\ Advance
        ELSE fs' = fs /\ Raise("OSError")
    /\ UNCHANGED locals

\* to_csv / write_html of one output file into output_dir
WriteOutput(name) ==
    \E ok \in BOOLEAN :
        IF ok THEN fs' = [fs EXCEPT ![cur].outs = @ \cup {name}] /\ Advance
        ELSE fs' = fs /\ Raise("OSError")

\* line 90
WriteData ==
    /\ At("write_data")
    /\ WriteOutput("processed_battery_data.csv")
    /\ UNCHANGED locals

\* line 91
WriteSummary ==
    /\ At("write_summary")
    /\ WriteOutput("battery_summary.csv")
    /\ UNCHANGED locals

\* lines 94-118
WritePlot ==
    /\ At("write_plot")
    /\ WriteOutput("cell_voltages_plot.html")
    /\ UNCHANGED locals

OutputDir(name) == "folder/" \o SplitextRoot(name)

CompletionLines(name) ==
    << "Processed data saved to " \o OutputDir(name),
       "Summary saved to " \o OutputDir(name) \o "/battery_summary.csv",
       "Interactive plot saved as " \o OutputDir(name) \o "/cell_voltages_plot.html" >>

\* lines 120-122, and the return to the for loop
PrintDone ==
    /\ At("print")
    /\ stdout' = stdout \o CompletionLines(cur)
    /\ pc' = "loop"
    /\ step' = StepAfter(step)
    /\ col_count' = 0
    /\ version' = 0
    /\ columns' = <<>>
    /\ table' = <<>>
    /\ summary' = EmptySummary
    /\ UNCHANGED << files, listing, idx, cur, fs, error, attempted >>

Next ==
    \/ StartFile
    \/ SkipFile
    \/ Finish
    \/ ReadCsv
    \/ ResolveSchema
    \/ Metrics
    \/ Decode
    \/ SummaryStep
    \/ MakeDirs
    \/ MoveSource
    \/ WriteData
    \/ WriteSummary
    \/ WritePlot
    \/ PrintDone

Spec == Init /\ [][Next]_vars

(***************************************************************************)
(* Runs over one file, with the inputs of one part of the pipeline drawn   *)
(* from a wide set.  The program (Next) is the same in all of them.        *)
(***************************************************************************)
OneFile(rows) == InitFolder([n \in {CsvName(1)} |-> rows])

\* Every width 1..MaxCols, with fault masks that decode differently under
\* the two flag tables.
InitSchema ==
    \E w \in 1..MaxCols, m \in {0, 128, 255} :
        OneFile(<< MkRow(w, FlatCells, 25, 10, Num(m)) >>)

SpecSchema == InitSchema /\ [][Next]_vars

\* Fault fields: integers, negative integers, fractions, NaN, text.
FaultValues ==
    {Num(m) : m \in (0 - MaxNegMask)..MaxMask}
    \cup {Rat(2 * k + 1, 2) : k \in (0 - MaxHalf)..(MaxHalf - 1)}
    \cup {NaN, Text}

InitDecode ==
    \E w \in {V1Wide, V2Wide}, f \in FaultValues :
        OneFile(<< MkRow(w, FlatCells, 25, 10, f) >>)

SpecDecode == InitDecode /\ [][Next]_vars

\* Files of 1..MaxFaultRows rows whose fault masks are drawn from
\* 0..MaxSummaryMask and 128, and the three-row file of masks 0, 1, 2.
RECURSIVE SeqsUpTo(_, _)
SeqsUpTo(S, n) ==
    IF n = 0 THEN {<<>>}
    ELSE LET shorter == SeqsUpTo(S, n - 1)
         IN  shorter \cup {Append(q, x) : q \in {r \in shorter : Len(r) = n - 1}, x \in S}

FaultFile(w, masks) ==
    [i \in 1..Len(masks) |-> MkRow(w, FlatCells, 25, 10, Num(masks[i]))]

InitFaults ==
    \E w \in {V1Wide, V2Wide},
       masks \in (SeqsUpTo(0..MaxSummaryMask \cup {128}, MaxFaultRows) \ {<<>>})
                 \cup {<<0, 1, 2>>} :
        OneFile(FaultFile(w, masks))

SpecFaults == InitFaults /\ [][Next]_vars

\* One-row files whose 24 cells sit at the middle level except for two
\* cells (possibly the same one) at any level.
CellLevel(l) == CellBase + CellStep * l

InitMetrics ==
    \E w \in {V1Wide}, p1 \in 1..NumCells, p2 \in 1..NumCells,
       l1 \in 0..MaxCellLevel, l2 \in 0..MaxCellLevel :
        OneFile(<< MkRow(w,
                         [i \in 1..NumCells |->
                             IF i = p2 THEN CellLevel(l2)
                             ELSE IF i = p1 THEN CellLevel(l1)
                             ELSE CellLevel(1)],
                         25, 10, Num(0)) >>)

SpecMetrics == InitMetrics /\ [][Next]_vars

(***************************************************************************)
(* Properties                                                              *)
(***************************************************************************)
Running == pc \in {"proc", "crashed"}

\* The raw Faults field of row i of the running file.
RawFault(i) == files[cur][i][ColIndex(columns, "Faults")]

IsNonNegInt(x) == x.k = "num" /\ x.n % x.d = 0 /\ x.n >= 0

\* C1: the source file is moved only after all three outputs are written:
\* it is never away from its original path while an output is missing.
C1_MoveIsLastStep ==
    \A n \in DOMAIN fs : fs[n].src = "moved" => fs[n].outs = OutputNames

\* C2: when the run has ended, every .csv file of the folder was processed,
\* whatever failed for another file, and every file that succeeded printed
\* its three completion lines.
C2_FailureDoesNotStopBatch ==
    pc \in {"done", "crashed"} =>
        /\ \A n \in DOMAIN files : n \in attempted
        /\ \A n \in attempted :
              ~(pc = "crashed" /\ cur = n) =>
                  \E k \in 0..(Len(stdout) - 3) :
                      SubSeq(stdout, k + 1, k + 3) = CompletionLines(n)

\* C3: whenever process_file has ended for a file (by return or by an
\* exception), its output directory holds all three outputs or none.
C3_OutputsAllOrNothing ==
    \A n \in DOMAIN fs :
        \/ pc = "proc" /\ cur = n
        \/ fs[n].outs = {}
        \/ fs[n].outs = OutputNames

\* C4: a file whose processing fails with a schema error, a decode error or
\* an empty input stays at its original path, and the source of the running
\* file is moved only once its derived table (fault text included) and its
\* summary are computed without error.
C4_FailureKeepsSource ==
    Running =>
        /\ (pc = "crashed" /\ step \in {"read", "schema", "decode"})
              => fs[cur].src = "orig"
        /\ fs[cur].src = "moved" =>
              /\ table # <<>>
              /\ \A i \in 1..Len(table) :
                    table[i].Fault_Text # "" /\ table[i].Highest_Cell # 0
              /\ summary.temps # <<>>

C4_Witness ==
    /\ pc = "crashed" /\ step = "decode" /\ error = "ValueError"
    /\ fs[cur].src = "orig"
    /\ \E n \in DOMAIN files : n # cur /\ fs[n].src = "moved"

\* C5 as stated: a file of 30 columns or fewer, or of 32..34 columns, is
\* narrower than the named-column list of its version (31 names for
\* version 1, 35 for version 2) and fails at schema resolution.
C5_NarrowFileFails_Original ==
    (Running /\ Len(files[cur]) > 0) =>
        LET w == Len(files[cur][1])
        IN  (w <= 30 \/ w \in 32..34) =>
                /\ step \in {"read", "schema"}
                /\ columns = <<>>
                /\ col_count # 0 => (pc = "crashed" /\ error = "ValueError")

\* C5 (amended): the named-column list has 30 names for version 1 and 34
\* for version 2; a file narrower than the list of its inferred version
\* (fewer than 30 columns, or 32..33) fails at schema resolution with an
\* error: no column names are assigned and no derived table or output is
\* ever produced from it.
C5_NarrowFileFails ==
    (Running /\ Len(files[cur]) > 0) =>
        LET w == Len(files[cur][1])
            named == IF w = 30 \/ w = 31 THEN 30 ELSE 34
        IN  /\ (w < named) <=> (w < 30 \/ w \in 32..33)
            /\ col_count # 0 => Len(NamedColumns(version)) = named
            /\ w < named =>
                  /\ step \in {"read", "schema"}
                  /\ columns = <<>>
                  /\ \A i \in 1..Len(table) : table[i].Highest_Cell = 0
                  /\ fs[cur].outs = {} /\ fs[cur].src = "orig"
                  /\ col_count # 0 => (pc = "crashed" /\ error = "ValueError")

C5_Witness ==
    /\ pc = "crashed" /\ step = "schema" /\ error = "ValueError"
    /\ col_count = 33 /\ columns = <<>>

\* C7: the version is 1 exactly when the file has 30 or 31 columns and 2
\* otherwise, and that one value names the columns, decodes the faults of
\* every row and chooses the thermal channels of the summary.
C7_VersionFromColumnCount ==
    (Running /\ col_count # 0) =>
        LET w == Len(files[cur][1])
            v == IF w = 30 \/ w = 31 THEN 1 ELSE 2
        IN  /\ col_count = w
            /\ version = v
            /\ columns # <<>> =>
                  /\ SubSeq(columns, 1, Len(NamedColumns(v))) = NamedColumns(v)
                  /\ columns[IF v = 1 THEN 30 ELSE 34] = "Faults"
            /\ \A i \in 1..Len(table) :
                  table[i].Fault_Text # "" =>
                      table[i].Fault_Text = decode_faults(RawFault(i), v).text
            /\ summary.temps # <<>> =>
                  summary.temps = (IF v = 1 THEN therms_v1 ELSE therms_v2)

C7_Witness ==
    /\ Running /\ col_count = 31 /\ version = 1
    /\ summary.temps = therms_v1
    /\ table[1].Fault_Text = "batteryCurrent"

\* C6: a fault value that is not a non-negative integer never gets a
\* Fault_Text: decoding it fails.
C6_NoSilentCoercion ==
    Running =>
        \A i \in 1..Len(table) :
            table[i].Fault_Text # "" => IsNonNegInt(RawFault(i))

\* The k-th smallest element of a set of numbers.
Nth(S, k) == CHOOSE b \in S : Cardinality({c \in S : c < b}) = k - 1

\* C8: for a non-negative integer mask the fault text names exactly the
\* flags of the version's table (8 for version 1, 9 for version 2) whose bit
\* is set, joined by ", " in table order, and is "clear" exactly when no
\* such bit is set; masks below 2^(table size) with the same text are equal.
C8_DecodeIsBitwise ==
    (pc = "proc" /\ step = "summary") =>
        \A i \in 1..Len(table) :
            LET f == RawFault(i)
                m == f.n
                t == table[i].Fault_Text
                flags == IF version = 1 THEN FAULT_FLAGS_V1 ELSE FAULT_FLAGS_V2
                n == IF version = 1 THEN 8 ELSE 9
                bits == {b \in 0..(n - 1) : (m % Pow2(b + 1)) >= Pow2(b)}
                names == [j \in 1..Cardinality(bits) |-> flags[1 + Nth(bits, j)]]
            IN  (f.k = "num" /\ f.d = 1 /\ m >= 0) =>
                    /\ Len(flags) = n
                    /\ (t = "clear") <=> (bits = {})
                    /\ bits # {} => (Split(t, ", ") = names /\ t = Join(names, ", "))
                    /\ m < Pow2(n) =>
                          \A m2 \in 0..(Pow2(n) - 1) :
                              decode_faults(Num(m2), version).text = t => m2 = m

C8_Witness ==
    /\ pc = "proc" /\ step = "summary" /\ version = 2
    /\ table[1].Fault_Text = "batteryMinVoltage, batteryAverageVoltage, batteryTherm4Temp"

\* The flag names in the order Python sorts them.
SortedFlagNames ==
    << "batteryAverageVoltage", "batteryCurrent", "batteryMaxVoltage",
       "batteryMinVoltage", "batteryTherm1Temp", "batteryTherm2Temp",
       "batteryTherm3Temp", "batteryTherm4Temp", "batteryVoltageDiff" >>

Rank(name) == CHOOSE r \in 1..Len(SortedFlagNames) : SortedFlagNames[r] = name

\* C9: Present Faults is the sorted, duplicate-free list of the flag names
\* active in at least one row, joined by ", "; it never holds "clear" and is
\* empty exactly when every row decodes to "clear"; masks 0, 1, 2 under
\* version 1 give "batteryMaxVoltage, batteryMinVoltage".
C9_PresentFaults ==
    (Running /\ summary.temps # <<>>) =>
        LET pf == summary.Present_Faults
            flags == IF version = 1 THEN FAULT_FLAGS_V1 ELSE FAULT_FLAGS_V2
            on(i, b) == (RawFault(i).n % Pow2(b + 1)) >= Pow2(b)
            active == {flags[b + 1] : b \in {c \in 0..(Len(flags) - 1) :
                                              \E i \in 1..Len(table) : on(i, c)}}
            parts == Split(pf, ", ")
        IN  /\ (pf = "") <=> (\A i \in 1..Len(table) : table[i].Fault_Text = "clear")
            /\ (pf = "") <=> (active = {})
            /\ pf # "" =>
                  /\ SeqToSet(parts) = active
                  /\ \A j \in 1..Len(parts), k \in 1..Len(parts) :
                        j < k => Rank(parts[j]) < Rank(parts[k])
                  /\ \A j \in 1..Len(parts) : parts[j] # "clear"
            /\ (version = 1 /\ Len(table) = 3 /\ RawFault(1).n = 0
                  /\ RawFault(2).n = 1 /\ RawFault(3).n = 2)
                  => pf = "batteryMaxVoltage, batteryMinVoltage"

C9_Witness ==
    /\ Running /\ version = 1 /\ Len(table) = 3
    /\ table[1].Fault_Text = "clear"
    /\ table[2].Fault_Text = "batteryMinVoltage"
    /\ table[3].Fault_Text = "batteryMaxVoltage"
    /\ summary.Present_Faults = "batteryMaxVoltage, batteryMinVoltage"

\* C10: in every row Highest_Cell and Lowest_Cell are in 1..24 and are the
\* smallest cell index whose converted voltage is the row's maximum,
\* respectively minimum; with 24 equal cells both are 1 and Delta is 0;
\* Delta is never negative.
C10_ExtremeCells ==
    Running =>
        \A i \in 1..Len(table) :
            table[i].Highest_Cell # 0 =>
                LET r == table[i]
                    c == [j \in 1..24 |-> r.fields[j + 1]]
                    H == r.Highest_Cell
                    L == r.Lowest_Cell
                IN  /\ H \in 1..24 /\ L \in 1..24
                    /\ \A j \in 1..24 :
                          /\ c[j].n = files[cur][i][j + 1].n /\ c[j].d = 10000
                          /\ c[j].n <= c[H].n /\ c[j].n >= c[L].n
                    /\ \A j \in 1..(H - 1) : c[j].n < c[H].n
                    /\ \A j \in 1..(L - 1) : c[j].n > c[L].n
                    /\ r.Delta.d > 0 /\ r.Delta.n >= 0
                    /\ r.Delta.n * 10000 = (c[H].n - c[L].n) * r.Delta.d
                    /\ (\A j \in 1..24 : c[j].n = c[1].n)
                          => (H = 1 /\ L = 1 /\ r.Delta.n = 0)

C10_Witness ==
    /\ Running /\ Len(table) = 1
    /\ table[1].Highest_Cell = 5 /\ table[1].Lowest_Cell = 1
    /\ table[1].fields[6].n = table[1].fields[9].n
    /\ table[1].Delta.n > 0

====
